---- MODULE Spec2Model ----
(***************************************************************************)
(* The IPC example clients of the tiling window manager:                   *)
(*   - the two streaming sessions, monitor_windows (window_monitor.py) and *)
(*     auto_tile (auto_tiler.py), which spawn `twm ... listen` and consume *)
(*     its standard output line by line;                                   *)
(*   - the two command queries, get_active_window (window_info.py) and     *)
(*     get_workspaces (workspace_status.py), which run `twm` to completion *)
(*     and decode one response envelope.                                   *)
(* Spec is the streaming session, QuerySpec the command query.             *)
(***************************************************************************)
EXTENDS Integers, Sequences, FiniteSets, TLC

VARIABLES
    script,      \* which streaming script runs: "monitor_windows" | "auto_tile"
    pc,          \* position of the session in its function
    proc,        \* the local name `proc`: "unbound" | "bound"
    child,       \* the child process: "none" | "running" | "terminating" | "exited" | "reaped"
    termSent,    \* a termination signal has been sent to the child
    stdoutOpen,  \* the child still holds the write end of its stdout pipe
    partial,     \* the stdout pipe holds a record whose line terminator is not written yet
    errPipe,     \* how much of its capacity the stderr pipe holds (nothing reads it)
    errBlocked,  \* the child is blocked in a write to the full stderr pipe
    lines,       \* the lines the session has taken from proc.stdout, in order
    handled,     \* how many of them the body of the loop has been run for
    dispatched,  \* the events handed to a handler, in order
    reports,     \* the error reports printed to sys.stderr, in order
    status,      \* how the session function ended
    cancels,     \* KeyboardInterrupts delivered to the session
    qscript,     \* which query script runs: "get_active_window" | "get_workspaces"
    qpc,         \* position of the query in its function
    qrun,        \* what subprocess.run did: spawn result, exit code, captured stdout
    qresult      \* the query's outcome: return status, the message printed, the data shown

pipes == <<partial, errPipe, errBlocked>>
svars == <<script, pc, proc, child, termSent, stdoutOpen, partial, errPipe, errBlocked, lines,
           handled, dispatched, reports, status, cancels>>
qvars == <<qscript, qpc, qrun, qresult>>
vars == <<script, pc, proc, child, termSent, stdoutOpen, partial, errPipe, errBlocked, lines,
          handled, dispatched, reports, status, cancels, qscript, qpc, qrun, qresult>>

\* Longest stream of lines a session is followed over.
MaxLines == 3
\* How many writes of the child the stderr pipe takes before it is full.
PipeCapacity == 1

(***************************************************************************)
(* JSON values, as far as the scripts look into them.                      *)
(***************************************************************************)
\* A key that the JSON object does not hold.
NoField == "<absent>"
\* A text holding a lone surrogate (the JSON escape \ud800): json.loads accepts
\* it, and no text stream can encode it.
Surrogate == "<U+D800>"

\* The `data` member of an event: absent, null (not a mapping), or a mapping.
Data(shape, hwnd, title, workspace) ==
    [shape |-> shape, hwnd |-> hwnd, title |-> title, workspace |-> workspace]
AbsentData == Data("absent", NoField, NoField, NoField)
NullData == Data("null", NoField, NoField, NoField)
EmptyMap == Data("map", NoField, NoField, NoField)
FullData(title) == Data("map", "123", title, "2")

\* One line of the child's standard output; nl: it ends with its terminator.
Line(kind, name, data) == [kind |-> kind, name |-> name, data |-> data, nl |-> TRUE]
\* The same record as the last of the stream, with no terminator after it.
Unterminated(line) == [line EXCEPT !.nl = FALSE]
ObjectLine(name, data) == Line("object", name, data)

\* The lines the child is taken to write.
LineSet ==
    { Line("blank", NoField, AbsentData),        \* "   \n"
      Line("garbage", NoField, AbsentData),      \* "{not json\n"
      Line("nonobject", NoField, AbsentData),    \* "[1, 2]\n", "null\n", "7\n"
      ObjectLine("window_created", FullData("Notes")),
      ObjectLine("window_created", FullData(Surrogate)),
      ObjectLine("window_created", NullData),
      ObjectLine("window_created", AbsentData),
      ObjectLine("window_closed", FullData("Notes")),
      ObjectLine("window_focused", EmptyMap),
      ObjectLine("window_moved", NullData),
      ObjectLine(NoField, FullData("Notes")) }

\* str.strip(): the terminator goes, and a whitespace-only line becomes the empty
\* text.
strip(line) ==
    [line EXCEPT !.nl = FALSE, !.kind = IF line.kind = "blank" THEN "empty" ELSE line.kind]

\* json.loads(text): raises JSONDecodeError on the empty text and on text that is
\* not JSON; returns a dict for an object and another value (list, number, string,
\* None) otherwise.
json_loads(text) ==
    [exc |-> IF text.kind \in {"empty", "blank", "garbage"} THEN "JSONDecodeError" ELSE "none",
     isdict |-> text.kind = "object",
     value |-> text]

\* dict.get(key, default) on a mapping of the model.
dict_get(d, key, default) == IF d[key] = NoField THEN default ELSE d[key]

\* event.get('data', {}): the member, or the empty mapping when it is absent.
get_data(event) == IF event.data.shape = "absent" THEN EmptyMap ELSE event.data

\* print() raises UnicodeEncodeError when an argument cannot be encoded.
Encodable(texts) == \A i \in DOMAIN texts : texts[i] # Surrogate

\* What the body of the loop does with one line: the exception it raises ("none"
\* when it completes), the handler branch it entered ("none" when it entered
\* none), the event's name and the arguments of the handler's print.
Outcome(exc, handler, name, out) ==
    [exc |-> exc, handler |-> handler, name |-> name, out |-> out]

\* A handler branch printing `out` to sys.stdout.
print_event(handler, name, out) ==
    Outcome(IF Encodable(out) THEN "none" ELSE "UnicodeEncodeError", handler, name, out)

\* window_monitor.py, the body of `for line in proc.stdout` up to its except clause.
monitor_windows_body(line) ==
    LET r == json_loads(strip(line)) IN
    IF r.exc # "none" THEN Outcome(r.exc, "none", NoField, <<>>)
    ELSE IF ~r.isdict THEN Outcome("AttributeError", "none", NoField, <<>>)
    ELSE
      LET event == r.value
          event_name == dict_get(event, "name", "unknown")
          event_data == get_data(event)
      IN  IF event_name = "window_created" THEN
              IF event_data.shape # "map"
              THEN Outcome("AttributeError", "window_created", event_name, <<>>)
              ELSE print_event("window_created", event_name,
                               <<dict_get(event_data, "title", "Unknown"),
                                 dict_get(event_data, "workspace", "?")>>)
          ELSE IF event_name \in {"window_closed", "window_focused"} THEN
              IF event_data.shape # "map"
              THEN Outcome("AttributeError", event_name, event_name, <<>>)
              ELSE print_event(event_name, event_name,
                               <<dict_get(event_data, "hwnd", "Unknown")>>)
          ELSE print_event("default", event_name, <<event_name>>)

\* auto_tiler.py, the body of `for line in proc.stdout` up to its except clause.
auto_tile_body(line) ==
    LET r == json_loads(strip(line)) IN
    IF r.exc # "none" THEN Outcome(r.exc, "none", NoField, <<>>)
    ELSE IF ~r.isdict THEN Outcome("AttributeError", "none", NoField, <<>>)
    ELSE
      LET event == r.value IN
      IF event.name = "window_created" THEN
          LET event_data == get_data(event) IN
          IF event_data.shape # "map"
          THEN Outcome("AttributeError", "window_created", event.name, <<>>)
          ELSE print_event("window_created", event.name,
                           <<dict_get(event_data, "title", "Unknown"),
                             dict_get(event_data, "hwnd", "None"),
                             dict_get(event_data, "workspace", "?")>>)
      ELSE Outcome("none", "default", event.name, <<>>)

\* Faulty variant: the window_closed branch is missing, so that the event falls
\* through to the last branch.
body_without_window_closed(line) ==
    LET o == IF script = "monitor_windows" THEN monitor_windows_body(line)
             ELSE auto_tile_body(line)
    IN  IF o.handler = "window_closed" THEN [o EXCEPT !.handler = "default"] ELSE o

\* The body of the loop of the script that runs.
body(line) ==
    IF script = "monitor_windows" THEN monitor_windows_body(line) ELSE auto_tile_body(line)

(***************************************************************************)
(* The streaming session.                                                  *)
(***************************************************************************)
Scripts == {"monitor_windows", "auto_tile"}
QScripts == {"get_active_window", "get_workspaces"}

\* The command query before it has run, and its result before it has returned.
QIdle == [spawn |-> "none", code |-> 0, out |-> [kind |-> "none"]]
NoResult ==
    [status |-> "none", kind |-> "none", message |-> NoField, data |-> "none", shown |-> <<>>]

\* A streaming script starts; no command query runs.
Init ==
    /\ script \in Scripts
    /\ pc = "entry"
    /\ proc = "unbound"
    /\ child = "none"
    /\ termSent = FALSE
    /\ stdoutOpen = FALSE
    /\ partial = FALSE
    /\ errPipe = 0
    /\ errBlocked = FALSE
    /\ lines = <<>>
    /\ handled = 0
    /\ dispatched = <<>>
    /\ reports = <<>>
    /\ status = "running"
    /\ cancels = 0
    /\ qscript = "none"
    /\ qpc = "idle"
    /\ qrun = QIdle
    /\ qresult = NoResult

\* An error report on sys.stderr: about which line (0: about none), of which kind.
Report(idx, kind, exc) == [idx |-> idx, kind |-> kind, exc |-> exc]

\* `except Exception as e` of the function: report, return 1.
except_Exception(idx, exc) ==
    /\ reports' = Append(reports, Report(idx, "fatal", exc))
    /\ status' = "1"
    /\ pc' = "done"

\* Faulty variant: the decode error is left to the function's `except Exception`.
except_JSONDecodeError_fatal(idx, exc) == except_Exception(idx, exc)

\* `except json.JSONDecodeError as e` of the loop: report, continue.
except_JSONDecodeError(idx, exc) ==
    /\ reports' = Append(reports, Report(idx, "decode", exc))
    /\ status' = status
    /\ pc' = "read"

\* The banner is printed and the try block entered.
Enter ==
    /\ pc = "entry"
    /\ pc' = "spawn"
    /\ UNCHANGED <<script, proc, child, termSent, stdoutOpen, lines, handled, dispatched, reports,
                   status, cancels>>
    /\ UNCHANGED pipes
    /\ UNCHANGED qvars

\* subprocess.Popen(...) starts the child and binds proc.
Spawn ==
    /\ pc = "spawn"
    /\ proc' = "bound"
    /\ child' = "running"
    /\ stdoutOpen' = TRUE
    /\ pc' = "read"
    /\ UNCHANGED <<script, termSent, lines, handled, dispatched, reports, status, cancels>>
    /\ UNCHANGED pipes
    /\ UNCHANGED qvars

\* subprocess.Popen(...) raises (FileNotFoundError, PermissionError).
SpawnFail ==
    /\ pc = "spawn"
    /\ except_Exception(0, "OSError")
    /\ UNCHANGED <<script, proc, child, termSent, stdoutOpen, lines, handled, dispatched, cancels>>
    /\ UNCHANGED pipes
    /\ UNCHANGED qvars

\* `for line in proc.stdout` yields the next line the child wrote: the child,
\* which is not blocked, writes a line, or the terminator of the record it had
\* begun.
ReadLine(line) ==
    /\ pc = "read"
    /\ stdoutOpen
    /\ ~errBlocked
    /\ Len(lines) < MaxLines
    /\ lines' = Append(lines, line)
    /\ partial' = FALSE
    /\ pc' = "line"
    /\ UNCHANGED <<errPipe, errBlocked>>
    /\ UNCHANGED <<script, proc, child, termSent, stdoutOpen, handled, dispatched, reports,
                   status, cancels>>
    /\ UNCHANGED qvars

\* `for line in proc.stdout` raises: the bytes are not text (UnicodeDecodeError),
\* or the read fails (OSError).
ReadError ==
    /\ pc = "read"
    /\ except_Exception(0, "TransportError")
    /\ UNCHANGED <<script, proc, child, termSent, stdoutOpen, lines, handled, dispatched, cancels>>
    /\ UNCHANGED pipes
    /\ UNCHANGED qvars

\* `for line in proc.stdout` at the end of the stream, with a record in the pipe
\* that has no terminator: the iterator yields it as the last line.
ReadFinal(line) ==
    /\ pc = "read"
    /\ ~stdoutOpen
    /\ partial
    /\ lines' = Append(lines, Unterminated(line))
    /\ partial' = FALSE
    /\ pc' = "line"
    /\ UNCHANGED <<script, proc, child, termSent, stdoutOpen, handled, dispatched, reports,
                   status, cancels>>
    /\ UNCHANGED <<errPipe, errBlocked>>
    /\ UNCHANGED qvars

\* Faulty variant: at the end of the stream a record without terminator is
\* dropped.
EndOfStream_dropping_partial ==
    /\ pc = "read"
    /\ ~stdoutOpen
    /\ status' = "None"
    /\ pc' = "done"
    /\ UNCHANGED <<script, proc, child, termSent, stdoutOpen, lines, handled, dispatched, reports,
                   cancels>>
    /\ UNCHANGED pipes
    /\ UNCHANGED qvars

\* `for line in proc.stdout` ends: the function falls off its end and returns None.
EndOfStream ==
    /\ pc = "read"
    /\ ~stdoutOpen
    /\ ~partial
    /\ status' = "None"
    /\ pc' = "done"
    /\ UNCHANGED <<script, proc, child, termSent, stdoutOpen, lines, handled, dispatched, reports,
                   cancels>>
    /\ UNCHANGED pipes
    /\ UNCHANGED qvars

\* An event handed to a handler: from which line, to which handler, printing what.
Dispatched(idx, o) == [idx |-> idx, name |-> o.name, handler |-> o.handler, out |-> o.out]

\* Faulty variant: the newest event is put before the ones dispatched earlier.
dispatch_newest_first(idx, o) ==
    dispatched' = IF o.handler = "none" THEN dispatched
                  ELSE <<Dispatched(idx, o)>> \o dispatched

\* The handler branch of the event, when the body entered one.
dispatch(idx, o) ==
    dispatched' = IF o.handler = "none" THEN dispatched
                  ELSE Append(dispatched, Dispatched(idx, o))

\* The body of the loop for the line in hand, with the except clauses it can reach.
ProcessLine ==
    /\ pc = "line"
    /\ LET idx == Len(lines)
           o == body(lines[idx])
       IN  /\ handled' = idx
           /\ dispatch(idx, o)
           /\ CASE o.exc = "none" -> /\ pc' = "read"
                                     /\ UNCHANGED <<reports, status>>
                [] o.exc = "JSONDecodeError" -> except_JSONDecodeError(idx, o.exc)
                [] OTHER -> except_Exception(idx, o.exc)
    /\ UNCHANGED <<script, proc, child, termSent, stdoutOpen, lines, cancels>>
    /\ UNCHANGED pipes
    /\ UNCHANGED qvars

\* Ctrl+C: KeyboardInterrupt is raised in the session, wherever it is. Before the
\* try block, and inside the except clause that handles an earlier one, nothing
\* catches it.
KeyboardInterrupt ==
    /\ pc # "done"
    /\ cancels' = cancels + 1
    /\ IF pc \in {"entry", "stopping"}
       THEN /\ status' = "KeyboardInterrupt"
            /\ pc' = "done"
       ELSE /\ status' = status
            /\ pc' = "stopping"
    /\ UNCHANGED <<script, proc, child, termSent, stdoutOpen, lines, handled, dispatched, reports>>
    /\ UNCHANGED pipes
    /\ UNCHANGED qvars

\* Popen.terminate(): polls the child first, which reaps it if it has exited, and
\* sends SIGTERM otherwise. The child dies of the signal, or handles or ignores it.
terminate ==
    CASE child = "exited" -> /\ child' = "reaped"
                             /\ UNCHANGED termSent
      [] child = "reaped" -> UNCHANGED <<child, termSent>>
      [] OTHER -> /\ termSent' = TRUE
                  /\ child' \in {"terminating", child}

\* `except KeyboardInterrupt`: proc.terminate(), return 0. With proc unbound the
\* clause raises UnboundLocalError, which nothing catches.
Stop ==
    /\ pc = "stopping"
    /\ IF proc = "unbound"
       THEN /\ status' = "UnboundLocalError"
            /\ UNCHANGED <<child, termSent>>
       ELSE /\ terminate
            /\ status' = "0"
    /\ pc' = "done"
    /\ UNCHANGED <<script, proc, stdoutOpen, lines, handled, dispatched, reports, cancels>>
    /\ UNCHANGED pipes
    /\ UNCHANGED qvars

\* The child closes its standard output and keeps running.
ChildCloseStdout ==
    /\ child \in {"running", "terminating"}
    /\ ~errBlocked
    /\ stdoutOpen
    /\ stdoutOpen' = FALSE
    /\ UNCHANGED <<script, pc, proc, child, termSent, lines, handled, dispatched, reports, status,
                   cancels>>
    /\ UNCHANGED pipes
    /\ UNCHANGED qvars

\* The child exits of its own accord.
ChildExit ==
    /\ child = "running"
    /\ ~errBlocked
    /\ child' = "exited"
    /\ stdoutOpen' = FALSE
    /\ UNCHANGED <<script, pc, proc, termSent, lines, handled, dispatched, reports, status, cancels>>
    /\ UNCHANGED pipes
    /\ UNCHANGED qvars

\* The child dies of the termination signal.
ChildDieOnTerm ==
    /\ child = "terminating"
    /\ child' = "exited"
    /\ stdoutOpen' = FALSE
    /\ UNCHANGED <<script, pc, proc, termSent, lines, handled, dispatched, reports, status, cancels>>
    /\ errBlocked' = FALSE
    /\ UNCHANGED <<partial, errPipe>>
    /\ UNCHANGED qvars

\* The child begins a record on its standard output and has not yet written its
\* terminator.
ChildWritePartial ==
    /\ child = "running"
    /\ ~errBlocked
    /\ stdoutOpen
    /\ ~partial
    /\ Len(lines) < MaxLines
    /\ partial' = TRUE
    /\ UNCHANGED <<script, pc, proc, child, termSent, stdoutOpen, lines, handled, dispatched,
                   reports, status, cancels>>
    /\ UNCHANGED <<errPipe, errBlocked>>
    /\ UNCHANGED qvars

\* The child writes to its standard error, which is a pipe (stderr=subprocess.PIPE)
\* that the session never reads.
ChildWriteStderr ==
    /\ child = "running"
    /\ ~errBlocked
    /\ errPipe < PipeCapacity
    /\ errPipe' = errPipe + 1
    /\ UNCHANGED <<script, pc, proc, child, termSent, stdoutOpen, lines, handled, dispatched,
                   reports, status, cancels>>
    /\ UNCHANGED <<partial, errBlocked>>
    /\ UNCHANGED qvars

\* The child writes to its standard error while the pipe is full: the write
\* blocks until the pipe is read.
ChildBlockOnStderr ==
    /\ child = "running"
    /\ ~errBlocked
    /\ errPipe = PipeCapacity
    /\ errBlocked' = TRUE
    /\ UNCHANGED <<script, pc, proc, child, termSent, stdoutOpen, lines, handled, dispatched,
                   reports, status, cancels>>
    /\ UNCHANGED <<partial, errPipe>>
    /\ UNCHANGED qvars

\* `sys.exit(monitor_windows())`: the exit status of the script. None exits with
\* 0; an uncaught exception prints its traceback and exits with 1; an uncaught
\* KeyboardInterrupt ends the interpreter by SIGINT (130 to the shell).
exit_status ==
    CASE status \in {"0", "None"} -> 0
      [] status \in {"1", "UnboundLocalError"} -> 1
      [] status = "KeyboardInterrupt" -> 130
      [] OTHER -> -1

SessionStep ==
    \/ Enter
    \/ Spawn
    \/ SpawnFail
    \/ \E line \in LineSet : ReadLine(line)
    \/ \E line \in LineSet : ReadFinal(line)
    \/ ReadError
    \/ EndOfStream
    \/ ProcessLine
    \/ Stop

ChildStep ==
    \/ ChildCloseStdout
    \/ ChildExit
    \/ ChildDieOnTerm
    \/ ChildWritePartial

\* What the child does on its standard error.
ChildErrStep ==
    \/ ChildWriteStderr
    \/ ChildBlockOnStderr

Next ==
    \/ SessionStep
    \/ KeyboardInterrupt
    \/ ChildStep

\* The session with a child that writes nothing to its standard error. The steps
\* of ChildErrStep change errPipe and errBlocked alone and enable no other step,
\* so what holds of the other variables here holds under ErrSpec too.
Spec == Init /\ [][Next]_vars

\* The interpreter keeps running the session, and a child that does not handle
\* the termination signal dies of it.
FairSpec == Spec /\ WF_vars(SessionStep) /\ WF_vars(ChildDieOnTerm)

\* The session with a child that also writes to its standard error.
ErrNext ==
    \/ Next
    \/ ChildErrStep

ErrSpec == Init /\ [][ErrNext]_vars

ErrFairSpec == ErrSpec /\ WF_vars(SessionStep) /\ WF_vars(ChildDieOnTerm)

(***************************************************************************)
(* The command query.                                                      *)
(***************************************************************************)
\* The exit codes the child is taken to return (-15: killed by a signal).
ExitCodes == {0, 1, 2, -15}

\* The captured standard output: not JSON, empty, JSON that is no object, or an
\* object with the members `type`, `message` and `data` (each present or not).
\* `data` is absent, null, a mapping (empty or not) or a list of mappings (empty,
\* of one mapping that holds every field, or of one empty mapping).
Response(kind, type, message, data) ==
    [kind |-> kind, type |-> type, message |-> message, data |-> data]
DataShapes == {"absent", "null", "emptymap", "map", "emptylist", "list", "listofempty"}
Responses ==
    { Response(k, NoField, NoField, "absent") : k \in {"garbage", "empty", "nonobject"} }
    \cup { Response("object", t, m, d) :
             t \in {NoField, "success", "error", "warning"},
             m \in {NoField, "no such workspace"},
             d \in DataShapes }

\* What subprocess.run(...) did.
Ran(spawn, code, out) == [spawn |-> spawn, code |-> code, out |-> out]
Runs ==
    { Ran(e, 0, Response("empty", NoField, NoField, "absent")) :
        e \in {"FileNotFoundError", "PermissionError"} }
    \cup { Ran("ok", c, o) : c \in ExitCodes, o \in Responses }

\* What the query function printed and returned. `kind` names the print
\* statement reached:
\*   "ProcessFailed"      "Error: Failed to get ... information"   (returncode != 0)
\*   "Rejected"           "Error: {response.get('message', 'Unknown error')}"
\*   "MalformedResponse"  "Error parsing response: {e}"            (JSONDecodeError)
\*   "ToolNotFound"       "Error: 'twm' command not found. ..."    (FileNotFoundError)
\*   "Exception"          "Error: {e}"                             (Exception)
\*   "Success"            the data
\* `shown` holds the field values printed on success.
Result(st, kind, message, data) ==
    [status |-> st, kind |-> kind, message |-> message, data |-> data, shown |-> <<>>]

\* Faulty variant: `except Exception` stands before `except FileNotFoundError`.
query_except_generic_first(exc) ==
    CASE exc = "JSONDecodeError" -> Result(1, "MalformedResponse", exc, "none")
      [] OTHER -> Result(1, "Exception", exc, "none")

\* The except clauses of the query functions.
query_except(exc) ==
    CASE exc = "JSONDecodeError" -> Result(1, "MalformedResponse", exc, "none")
      [] exc = "FileNotFoundError" -> Result(1, "ToolNotFound", exc, "none")
      [] OTHER -> Result(1, "Exception", exc, "none")

\* The envelope's `message`, or the default of response.get('message', ...).
envelope_message(response) == dict_get(response, "message", "Unknown error")

\* The window a `data` mapping describes: every field, or none.
WindowOf(shape) ==
    IF shape = "map"
    THEN [hwnd |-> "123", title |-> "Notes", class |-> "Notepad",
          process_name |-> "notepad.exe", workspace |-> "2", monitor |-> "0",
          state |-> "tiled", rect |-> "map"]
    ELSE [hwnd |-> NoField, title |-> NoField, class |-> NoField,
          process_name |-> NoField, workspace |-> NoField, monitor |-> NoField,
          state |-> NoField, rect |-> NoField]

\* window.get('rect', {}): the rectangle of the window, or the empty mapping.
RectOf(window) ==
    IF window.rect = NoField
    THEN [x |-> NoField, y |-> NoField, width |-> NoField, height |-> NoField]
    ELSE [x |-> "10", y |-> "20", width |-> "800", height |-> "600"]

\* window_info.py: showing the window. window.get(...) needs a mapping.
show_window(response) ==
    IF response.data \in {"absent", "emptymap", "map"}
    THEN LET window == WindowOf(response.data)
             rect == RectOf(window)
         IN  [Result(0, "Success", NoField,
                     IF response.data = "absent" THEN "emptymap" ELSE response.data)
              EXCEPT !.shown =
                <<dict_get(window, "hwnd", "Unknown"), dict_get(window, "title", "Unknown"),
                  dict_get(window, "class", "Unknown"),
                  dict_get(window, "process_name", "Unknown"),
                  dict_get(window, "workspace", "?"), dict_get(window, "monitor", "?"),
                  dict_get(window, "state", "Unknown"),
                  dict_get(rect, "x", "0"), dict_get(rect, "y", "0"),
                  dict_get(rect, "width", "0"), dict_get(rect, "height", "0")>>]
    ELSE query_except("AttributeError")

\* The workspaces a `data` list holds.
WorkspacesOf(shape) ==
    CASE shape = "list" ->
             <<[id |-> "1", name |-> "main", monitor |-> "0", window_count |-> "3",
                active |-> "True"]>>
      [] shape = "listofempty" ->
             <<[id |-> NoField, name |-> NoField, monitor |-> NoField,
                window_count |-> NoField, active |-> NoField]>>
      [] OTHER -> <<>>

\* The body of `for ws in workspaces`.
show_workspace(ws) ==
    <<dict_get(ws, "id", "?"), dict_get(ws, "name", "Unknown"), dict_get(ws, "monitor", "?"),
      dict_get(ws, "window_count", "0"), dict_get(ws, "active", "False")>>

\* workspace_status.py: showing the workspaces. `for ws in workspaces` needs an
\* iterable, and ws.get(...) a mapping: iterating a mapping yields its keys.
show_workspaces(response) ==
    CASE response.data \in {"absent", "emptylist", "list", "listofempty", "emptymap"} ->
             LET workspaces == WorkspacesOf(response.data) IN
             [Result(0, "Success", NoField,
                     IF response.data = "absent" THEN "emptylist" ELSE response.data)
              EXCEPT !.shown = IF workspaces = <<>> THEN <<>>
                               ELSE show_workspace(workspaces[1])]
      [] response.data = "null" -> query_except("TypeError")
      [] OTHER -> query_except("AttributeError")

\* Faulty variant: the output is decoded before the exit code is looked at.
query_body_decode_first(result, shown) ==
    LET r == json_loads(result.out) IN
    IF r.exc # "none" THEN query_except(r.exc)
    ELSE IF result.code # 0 THEN Result(1, "ProcessFailed", NoField, "none")
    ELSE IF ~r.isdict THEN query_except("AttributeError")
    ELSE LET response == r.value IN
         IF response.type # "success"
         THEN Result(1, "Rejected", envelope_message(response), "none")
         ELSE shown

\* Faulty variant: the `type` of the envelope is not looked at.
query_body_without_type_test(result, shown) ==
    IF result.code # 0 THEN Result(1, "ProcessFailed", NoField, "none")
    ELSE LET r == json_loads(result.out) IN
         IF r.exc # "none" THEN query_except(r.exc)
         ELSE IF ~r.isdict THEN query_except("AttributeError")
         ELSE shown

\* The try block of both query functions after subprocess.run has returned;
\* `shown` is what showing the data of the response comes to.
query_body(result, shown) ==
    IF result.code # 0 THEN Result(1, "ProcessFailed", NoField, "none")
    ELSE LET r == json_loads(result.out) IN
         IF r.exc # "none" THEN query_except(r.exc)
         ELSE IF ~r.isdict THEN query_except("AttributeError")
         ELSE LET response == r.value IN
              IF response.type # "success"
              THEN Result(1, "Rejected", envelope_message(response), "none")
              ELSE shown

\* window_info.py
get_active_window(run) ==
    IF run.spawn # "ok" THEN query_except(run.spawn)
    ELSE query_body(run, show_window(run.out))

\* workspace_status.py
get_workspaces(run) ==
    IF run.spawn # "ok" THEN query_except(run.spawn)
    ELSE query_body(run, show_workspaces(run.out))

\* A query script starts; no streaming session runs.
QInit ==
    /\ script = "none"
    /\ pc = "idle"
    /\ proc = "unbound"
    /\ child = "none"
    /\ termSent = FALSE
    /\ stdoutOpen = FALSE
    /\ partial = FALSE
    /\ errPipe = 0
    /\ errBlocked = FALSE
    /\ lines = <<>>
    /\ handled = 0
    /\ dispatched = <<>>
    /\ reports = <<>>
    /\ status = "none"
    /\ cancels = 0
    /\ qscript \in QScripts
    /\ qpc = "entry"
    /\ qrun = QIdle
    /\ qresult = NoResult

\* subprocess.run(...): the child is spawned and runs to completion, or the
\* spawn raises.
Run(run) ==
    /\ qpc = "entry"
    /\ qrun' = run
    /\ qpc' = "ran"
    /\ UNCHANGED <<qscript, qresult>>
    /\ UNCHANGED svars

\* The rest of the query function: it prints and returns.
Return ==
    /\ qpc = "ran"
    /\ qresult' = IF qscript = "get_active_window" THEN get_active_window(qrun)
                  ELSE get_workspaces(qrun)
    /\ qpc' = "done"
    /\ UNCHANGED <<qscript, qrun>>
    /\ UNCHANGED svars

QNext ==
    \/ \E run \in Runs : Run(run)
    \/ Return

QuerySpec == QInit /\ [][QNext]_vars

\* Either script: a streaming session or a command query.
AllNext ==
    \/ script # "none" /\ Next
    \/ qscript # "none" /\ QNext

AllSpec == (Init \/ QInit) /\ [][AllNext]_vars

(***************************************************************************)
(* Properties.                                                             *)
(***************************************************************************)
\* The reports about line i, and the events dispatched from it.
ReportsOf(i) == {k \in DOMAIN reports : reports[k].idx = i}
DispatchesOf(i) == {k \in DOMAIN dispatched : dispatched[k].idx = i}

\* The session was ended by its `except Exception` clause while handling line i.
EndedBy(i) ==
    /\ pc = "done"
    /\ status = "1"
    /\ \E k \in ReportsOf(i) : reports[k].kind = "fatal"

\* A line whose text is not valid JSON (whitespace-only lines are C10's).
NotJSON(line) == line.kind = "garbage"

\* A line holding one event record: an object with a name whose `data` is a
\* mapping or absent.
WellFormed(line) ==
    /\ line.kind = "object"
    /\ line.name # NoField
    /\ line.data.shape \in {"absent", "map"}

\* A well-formed line whose handler completes.
Benign(line) == WellFormed(line) /\ body(line).exc = "none"

\* C1: a handled line that is not valid JSON has exactly one report, a recoverable
\* one (the session did not end by it), and no dispatched event; every handled
\* well-formed line, before or after it, has been dispatched once; and after a
\* stream of a well-formed, a malformed and a well-formed line, exactly the first
\* and the third have been dispatched, in that order, one error has been reported
\* and the session is still running.
C1_MalformedLineIsReportedAndSkipped ==
    /\ \A i \in 1..handled :
         /\ NotJSON(lines[i]) =>
              /\ Cardinality(ReportsOf(i)) = 1
              /\ \A k \in ReportsOf(i) : reports[k].kind = "decode"
              /\ DispatchesOf(i) = {}
              /\ ~EndedBy(i)
         /\ WellFormed(lines[i]) => Cardinality(DispatchesOf(i)) = 1
    /\ ( /\ handled = 3
         /\ Benign(lines[1]) /\ NotJSON(lines[2]) /\ Benign(lines[3]) )
       => /\ Len(dispatched) = 2
          /\ dispatched[1].idx = 1
          /\ dispatched[2].idx = 3
          /\ Len(reports) \in {1, 2}
          /\ reports[1] = Report(2, "decode", "JSONDecodeError")
          /\ \A k \in DOMAIN reports : k > 1 => reports[k].idx = 0
          /\ pc = "read" => status = "running"

\* C1 witness: a well-formed, a malformed and a well-formed line have been
\* handled and the session waits for the next line.
C1_Witness ==
    /\ handled = 3
    /\ Benign(lines[1]) /\ NotJSON(lines[2]) /\ Benign(lines[3])
    /\ pc = "read"
    /\ status = "running"
    /\ Len(dispatched) = 2
    /\ Len(reports) = 1

\* C2 as claimed: a line whose handler raises is reported and does not end the
\* session.
HandlerFails(line) == body(line).handler # "none" /\ body(line).exc # "none"
C2_HandlerFailureDoesNotStopStream ==
    \A i \in 1..handled :
        HandlerFails(lines[i]) => ReportsOf(i) # {} /\ ~EndedBy(i)

\* C3 as claimed: a line that is JSON but no object, or whose `data` is present
\* and no mapping, is reported as a recoverable decode error and does not end the
\* session.
NotAnEvent(line) ==
    \/ line.kind = "nonobject"
    \/ line.kind = "object" /\ line.data.shape = "null"
C3_NoLineTerminatesSession ==
    \A i \in 1..handled :
        NotAnEvent(lines[i]) =>
            /\ \E k \in ReportsOf(i) : reports[k].kind = "decode"
            /\ ~EndedBy(i)

\* The session was cancelled and its except clause has returned.
Cancelled == pc = "done" /\ status = "0"
ChildAlive == child \in {"running", "terminating"}

\* C4 as claimed: once a running session has been cancelled, the child is
\* eventually no longer running, and no event is dispatched any more.
C4_CancelStopsChild ==
    /\ [](Cancelled => <>(~ChildAlive))
    /\ [][Cancelled => dispatched' = dispatched]_vars

\* C5 as claimed: a session that has ended (cancelled, end of stream, or fault)
\* after spawning its child has signalled and awaited it: the child is not
\* running any more and has been reaped.
C5_EndedSessionHasReapedChild ==
    (pc = "done" /\ proc = "bound" /\ status \in {"0", "1", "None"}) => child = "reaped"

\* The dispatched events are in stream order, one per line at most.
InStreamOrder ==
    \A j, k \in DOMAIN dispatched : j < k => dispatched[j].idx < dispatched[k].idx

\* C6: the dispatched events are those of the handled well-formed lines, in
\* stream order: each is built from one handled line, which is a JSON object,
\* and from nothing else; no line has two events; no handled well-formed line is
\* left out; and the order is the order of the lines.
C6_DispatchedInStreamOrder ==
    /\ InStreamOrder
    /\ \A k \in DOMAIN dispatched :
         LET i == dispatched[k].idx IN
         /\ i \in 1..handled
         /\ lines[i].kind = "object"
         /\ dispatched[k] = Dispatched(i, body(lines[i]))
    /\ \A i \in 1..handled : WellFormed(lines[i]) => Cardinality(DispatchesOf(i)) = 1

\* C6 witness: three events of three different lines have been dispatched.
C6_Witness ==
    /\ handled = 3
    /\ Len(dispatched) = 3
    /\ lines[1] # lines[2] /\ lines[2] # lines[3] /\ lines[1] # lines[3]

\* C7: when the child of a query exits with a code other than 0, the query ends
\* as ProcessFailed with status 1 and shows no data, whatever was captured.
C7_NonZeroExitIsProcessFailed ==
    (qpc = "done" /\ qrun.spawn = "ok" /\ qrun.code # 0) =>
        /\ qresult.kind = "ProcessFailed"
        /\ qresult.status = 1
        /\ qresult.data = "none"

\* C7 witness: the child exited with code 1 after writing a success envelope.
C7_Witness ==
    /\ qpc = "done"
    /\ qrun.spawn = "ok"
    /\ qrun.code = 1
    /\ qrun.out.kind = "object"
    /\ qrun.out.type = "success"
    /\ qresult.kind = "ProcessFailed"

\* C8 as claimed: with exit code 0 and an envelope, `success` returns the data,
\* `error` is Rejected with the envelope's message, and any other `type` is
\* MalformedResponse.
C8_TypeDecidesOutcome ==
    (qpc = "done" /\ qrun.spawn = "ok" /\ qrun.code = 0 /\ qrun.out.kind = "object") =>
        CASE qrun.out.type = "success" ->
                 /\ qresult.kind = "Success"
                 /\ qrun.out.data # "absent" => qresult.data = qrun.out.data
          [] qrun.out.type = "error" ->
                 /\ qresult.kind = "Rejected"
                 /\ qrun.out.message # NoField => qresult.message = qrun.out.message
          [] OTHER -> qresult.kind = "MalformedResponse"

\* C9 as claimed: a session that was sent a cancellation, at whatever point, ends
\* with the cancelled status.
C9_CancellationAlwaysEndsCancelled ==
    (cancels > 0 /\ pc = "done") => status = "0"

\* C10 as claimed: a handled whitespace-only line has no report and no event.
C10_BlankLineIsSilent ==
    \A i \in 1..handled :
        lines[i].kind = "blank" => ReportsOf(i) = {} /\ DispatchesOf(i) = {}

\* The handler the claim names for an event of the given name: the one of that
\* name where the script has one, the default one otherwise.
NamedHandlers ==
    IF script = "monitor_windows"
    THEN {"window_created", "window_closed", "window_focused"}
    ELSE {"window_created"}
ExpectedHandler(name) == IF name \in NamedHandlers THEN name ELSE "default"

\* C11: every handled line that decodes to an object has been handed to exactly
\* one handler: the one named like the event where the script has one, and the
\* default handler otherwise; never both, and never the handler of another name.
C11_ExactlyOneHandler ==
    \A i \in 1..handled :
        lines[i].kind = "object" =>
            /\ Cardinality(DispatchesOf(i)) = 1
            /\ \A k \in DispatchesOf(i) :
                 dispatched[k].handler = ExpectedHandler(lines[i].name)

\* C11 witness: monitor_windows has handed one event to a named handler and
\* another to the default handler.
C11_Witness ==
    /\ script = "monitor_windows"
    /\ \E j, k \in DOMAIN dispatched :
         /\ dispatched[j].handler = "window_closed"
         /\ dispatched[k].handler = "default"

\* The session ended after a cancellation, or by its `except Exception` clause.
EndedByCancellation == pc = "done" /\ cancels > 0
EndedByFault == pc = "done" /\ cancels = 0 /\ \E k \in DOMAIN reports : reports[k].kind = "fatal"

\* C12 as claimed: a session that ends by a fault exits with status 1, and no
\* session that ends by cancellation exits with that status (nor a faulted one
\* with the status 0 of a cancelled one).
C12_CancelledAndFaultedStatusDiffer ==
    /\ EndedByCancellation => exit_status # 1
    /\ EndedByFault => exit_status = 1

\* C13: a query whose spawn fails because the executable is not found ends as
\* ToolNotFound with status 1 and no data, and no other run of the query does:
\* neither another spawn failure nor any exit code or output of a spawned child.
C13_ToolNotFoundIsDistinct ==
    qpc = "done" =>
        /\ qrun.spawn = "FileNotFoundError" =>
             /\ qresult.kind = "ToolNotFound"
             /\ qresult.status = 1
             /\ qresult.data = "none"
        /\ qresult.kind = "ToolNotFound" => qrun.spawn = "FileNotFoundError"

\* C13 witness: the executable was not found and the query has returned.
C13_Witness ==
    /\ qpc = "done"
    /\ qrun.spawn = "FileNotFoundError"
    /\ qresult.kind = "ToolNotFound"

\* C17 as claimed: when the child exits with a code other than 0 and its output
\* decodes to an envelope, the failure carries the envelope's message.
C17_FailureMessageFromEnvelope ==
    ( /\ qpc = "done"
      /\ qrun.spawn = "ok"
      /\ qrun.code # 0
      /\ qrun.out.kind = "object"
      /\ qrun.out.message # NoField )
    => qresult.message = qrun.out.message

\* C19: a query returns 0 or 1; it returns 0 only if the child was spawned,
\* exited with code 0 and wrote an object whose `type` is `success`; and every
\* spawn error, decode error and other error raised in the query returns 1.
C19_QueryStatus ==
    qpc = "done" =>
        /\ qresult.status \in {0, 1}
        /\ qresult.status = 0 =>
             /\ qrun.spawn = "ok"
             /\ qrun.code = 0
             /\ qrun.out.kind = "object"
             /\ qrun.out.type = "success"
        /\ qrun.spawn # "ok" => qresult.status = 1
        /\ qresult.kind \in {"MalformedResponse", "ToolNotFound", "Exception"} =>
             qresult.status = 1

\* C19 witness: one query has returned 0 for a success envelope.
C19_Witness ==
    /\ qpc = "done"
    /\ qresult.status = 0
    /\ qrun.out.type = "success"

\* C14 as claimed: whatever the child has written to its standard error is
\* surfaced to the operator: what the stderr pipe holds is eventually taken out
\* of it.
C14_StderrIsSurfaced == [](errPipe > 0 => <>(errPipe = 0))

\* The record of a line with its terminator.
Terminated(line) == [line EXCEPT !.nl = TRUE]

\* Line i has been handled as `o` says: handed to the handler of `o` if it has
\* one, reported as a decode error if `o` is one.
HandledAs(i, o) ==
    /\ IF o.handler = "none" THEN DispatchesOf(i) = {}
       ELSE /\ Cardinality(DispatchesOf(i)) = 1
            /\ \A k \in DispatchesOf(i) : dispatched[k] = Dispatched(i, o)
    /\ o.exc = "JSONDecodeError" =>
         \E k \in ReportsOf(i) : reports[k].kind = "decode"
    /\ o.exc = "none" => ReportsOf(i) = {}

\* C15: a record that the stream ends with, with no terminator after it, is
\* yielded as a line of its own, the last one; it is handled as the same record
\* with a terminator is; and the stream does not end while the record is still in
\* the pipe.
C15_UnterminatedFinalRecord ==
    /\ \A i \in 1..Len(lines) :
         ~lines[i].nl =>
             /\ i = Len(lines)
             /\ ~stdoutOpen
             /\ ~partial
             /\ i <= handled => HandledAs(i, body(Terminated(lines[i])))
    /\ (pc = "done" /\ status = "None") => ~partial

\* C15 witness: after a terminated line, a well-formed record without terminator
\* has been dispatched and the stream has ended.
C15_Witness ==
    /\ Len(lines) = 2
    /\ handled = 2
    /\ lines[1].nl
    /\ ~lines[2].nl
    /\ Benign(lines[2])
    /\ DispatchesOf(2) # {}
    /\ pc = "done"
    /\ status = "None"

\* The sentinel values the claim names, as printed.
Sentinels == {"Unknown", "?", "0", "False"}

\* An event whose `data` is absent or holds none of the fields.
NoFields(line) ==
    /\ line.kind = "object"
    /\ line.data.shape \in {"absent", "map"}
    /\ line.data.hwnd = NoField
    /\ line.data.title = NoField
    /\ line.data.workspace = NoField

\* A response whose `data` is absent or holds none of the fields.
QueryWithoutFields ==
    /\ qpc = "done"
    /\ qrun.spawn = "ok"
    /\ qrun.code = 0
    /\ qrun.out.kind = "object"
    /\ qrun.out.type = "success"
    /\ \/ qrun.out.data \in {"absent", "emptymap"} /\ qscript = "get_active_window"
       \/ qrun.out.data \in {"absent", "listofempty"} /\ qscript = "get_workspaces"

\* Absent `data` is handled as the empty record is, without any error.
AbsentDataIsEmptyRecord ==
    /\ \A i \in 1..handled :
         NoFields(lines[i]) =>
             /\ HandledAs(i, body([lines[i] EXCEPT !.data = EmptyMap]))
             /\ ReportsOf(i) = {}
             /\ ~EndedBy(i)
    /\ QueryWithoutFields => qresult.status = 0 /\ qresult.kind = "Success"

\* C16 as claimed: absent `data` is handled as the empty record, every absent
\* field is read as one of the sentinel values, and nothing fails.
C16_AbsentReadsAsSentinel ==
    /\ AbsentDataIsEmptyRecord
    /\ \A k \in DOMAIN dispatched :
         (NoFields(lines[dispatched[k].idx]) /\ dispatched[k].handler # "default") =>
             \A j \in DOMAIN dispatched[k].out : dispatched[k].out[j] \in Sentinels
    /\ QueryWithoutFields =>
         \A j \in DOMAIN qresult.shown : qresult.shown[j] \in Sentinels

\* C18 as claimed: the child is never blocked in a write to its standard error
\* while the session waits for the next line of its standard output.
C18_NoPipeDeadlock ==
    ~(child = "running" /\ errBlocked /\ stdoutOpen /\ pc = "read")

====
